---- MODULE Spec2Model ----
(***************************************************************************)
(* ConsensusCruncher.py: the argument handling of __main__ and the stage   *)
(* sequencing of consensus(), over a small file system and a log of the    *)
(* external tool invocations.                                              *)
(*                                                                         *)
(* A Python value is a pair <<type, repr>> of strings, so that None, the   *)
(* bool True and the str "True" stay distinct.  A command-line flag is     *)
(* << >> when it is not given and <<string>> when it is; the config file   *)
(* is << >> when -c is not given and <<sections>> when it is.  A path      *)
(* under the sample directory is a sequence <<dir, c1, ..., cn>> standing  *)
(* for sample_dir/dir/c1.c2. ... .cn ; dir "." is the sample directory     *)
(* itself and "ID" is the identifier taken from the input BAM's name.      *)
(* The external tools' exit statuses are chosen freely, 0 or 1; a failed   *)
(* component or merge has written either all of its outputs or none.       *)
(* The content of a BAM file is the set of the molecules its records stand *)
(* for.  The consensus caller of SSCS_maker is modelled on one column of   *)
(* one read family.                                                        *)
(***************************************************************************)
EXTENDS Integers, Sequences, FiniteSets, TLC

VARIABLES cli, config, args, status, ip, dirs, files, log, content, caller

vars == <<cli, config, args, status, ip, dirs, files, log, content, caller>>

(* ----------------------------- bounds ---------------------------------- *)
\* How many external tool invocations of one run may return non-zero.
MaxFailures == 1

\* How many molecules the input BAM file holds at most.
MaxMolecules == 3

\* How many reads a family holds at most.
MaxFamily == 5

(* ------------------------- Python values ------------------------------- *)
None == <<"NoneType", "None">>
PyTrue == <<"bool", "True">>
PyFalse == <<"bool", "False">>
Str(s) == <<"str", s>>
Float(s) == <<"float", s>>

\* bool(s) of a str: only the empty string is falsy.
PyBool(s) == IF s = "" THEN PyFalse ELSE PyTrue

\* The type= callables of the consensus arguments applied to a string.
ApplyType(type, s) ==
    CASE type = "bool" -> PyBool(s)
      [] type = "float" -> Float(s)
      [] OTHER -> Str(s)

(* ------------------------ argument handling ---------------------------- *)
bedfile == "CODE_DIR/ConsensusCruncher/cytoBand.txt"
fastq1_help == "FASTQ containing Read 1 of paired-end reads."
fastq2_help == "FASTQ containing Read 2 of paired-end reads."
output_help == "Output directory, where barcode extracted FASTQ and BAM files will be placed in subdirectories 'fastq_tag' and 'bamfiles' respectively (dir will be created if they do not exist)."
bwa_help == "Path to executable bwa."
samtools_help == "Path to executable samtools"
ref_help == "Reference (BWA index)."
cinput_help == "Input BAM file."
coutput_help == "Output directory, where a folder will be created for the BAM file and consensus sequences are outputted."
cleanup_help == "Remove intermediate files."

\* The dict of built-in values that is only built when a config file is given.
defaults ==
    [ fastq1   |-> Str(fastq1_help),
      fastq2   |-> Str(fastq2_help),
      output   |-> Str(output_help),
      name     |-> Str("_R"),
      bwa      |-> Str(bwa_help),
      ref      |-> Str(ref_help),
      samtools |-> Str(samtools_help),
      bpattern |-> None,
      blist    |-> None,
      bam      |-> Str(cinput_help),
      c_output |-> Str(coutput_help),
      scorrect |-> PyTrue,
      bedfile  |-> Str(bedfile),
      cutoff   |-> Float("0.7"),
      cleanup  |-> Str(cleanup_help) ]

\* dict.update with the items of a config section (configparser yields strs).
Update(d, section) ==
    [k \in (DOMAIN d) \cup (DOMAIN section) |->
        IF k \in DOMAIN section THEN Str(section[k]) ELSE d[k]]

\* The parser-level defaults of the consensus subparser (set_defaults).
ParserDefaults(cfg) ==
    IF cfg = << >> THEN << >>
    ELSE Update(Update(defaults, cfg[1].fastq2bam), cfg[1].consensus)

\* The arguments of the consensus subparser: dest |-> type.
ConsensusArgs ==
    [ bam      |-> "str",
      c_output |-> "str",
      samtools |-> "str",
      scorrect |-> "bool",
      bedfile  |-> "str",
      cutoff   |-> "float",
      cleanup  |-> "bool" ]

\* add_argument: an argument without default= takes the parser-level default
\* that is set at that moment; only --bedfile is given default=bedfile.
ActionDefault(pd, dest) ==
    IF dest = "bedfile" THEN Str(bedfile)
    ELSE IF dest \in DOMAIN pd THEN pd[dest]
    ELSE None

\* The value argparse stores for one dest: the converted command-line string,
\* else the default, converted by type= when the default is a str.
ArgValue(pd, c, dest) ==
    LET d == ActionDefault(pd, dest)
        type == ConsensusArgs[dest] IN
    IF c[dest] # << >> THEN ApplyType(type, c[dest][1])
    ELSE IF d[1] = "str" THEN ApplyType(type, d[2])
    ELSE d

\* The namespace of main_p.parse_args() for the consensus subcommand: the
\* arguments, then the parser-level defaults that no argument stores.
ParseArgs(cfg, c) ==
    LET pd == ParserDefaults(cfg) IN
    [k \in (DOMAIN ConsensusArgs) \cup (DOMAIN pd) |->
        IF k \in DOMAIN ConsensusArgs THEN ArgValue(pd, c, k) ELSE pd[k]]

\* The check of the required consensus arguments.
MissingRequired(a) ==
    a["bam"] = None \/ a["c_output"] = None \/ a["samtools"] = None

\* The arguments of the fastq2bam subparser, all of type=str.
Fastq2bamArgs ==
    {"fastq1", "fastq2", "output", "name", "bwa", "ref", "samtools", "bpattern", "blist"}

\* The parser-level defaults of the fastq2bam subparser: set before the
\* items of the [consensus] section are added.
ParserDefaults_a(cfg) ==
    IF cfg = << >> THEN << >>
    ELSE Update(defaults, cfg[1].fastq2bam)

\* The namespace of main_p.parse_args() for the fastq2bam subcommand.
ParseArgs_a(cfg, c) ==
    LET pd == ParserDefaults_a(cfg) IN
    [k \in Fastq2bamArgs \cup (DOMAIN pd) |->
        IF k \notin Fastq2bamArgs THEN pd[k]
        ELSE IF c[k] # << >> THEN Str(c[k][1])
        ELSE ActionDefault(pd, k)]

\* The check of the required fastq2bam arguments.
MissingRequired_a(a) ==
    \/ a["fastq1"] = None \/ a["fastq2"] = None \/ a["output"] = None
    \/ a["bwa"] = None \/ a["ref"] = None \/ a["samtools"] = None

\* The characters of the barcode strings of the model.
Chars(s) ==
    CASE s = "NNT" -> <<"N", "N", "T">>
      [] s = "NNX" -> <<"N", "N", "X">>
      [] s = "N|T" -> <<"N", "|", "T">>
      [] s = "ACG" -> <<"A", "C", "G">>
      [] s = "TGA" -> <<"T", "G", "A">>
      [] s = "AXG" -> <<"A", "X", "G">>

\* open(args.blist).read().splitlines() for the barcode lists of the model.
ReadLines(path) ==
    CASE path = "barcodes.txt" -> <<"ACG", "TGA">>
      [] path = "faulty.txt" -> <<"ACG", "AXG">>

\* "".join(lines), as characters.
RECURSIVE Join(_)
Join(lines) == IF lines = << >> THEN << >> ELSE Chars(Head(lines)) \o Join(Tail(lines))

\* The characters the classes of r'[^A|C|G|T|N]' and "[^ACGTN]" exclude.
PatternClass == {"A", "|", "C", "G", "T", "N"}
ListClass == {"A", "C", "G", "T", "N"}

\* re.findall of a negated class: the characters outside the class.
Findall(class, chars) == SelectSeq(chars, LAMBDA ch : ch \notin class)

(* ------------------------------ paths ---------------------------------- *)
\* '{sample_dir}/{dir}/{identifier}.{suffix...}'
P(dir, suffix) == <<dir, "ID">> \o suffix

\* sort_index: identifier = bam.split('.bam', 1)[0], then '.sorted.bam'.
RECURSIVE FirstBam(_, _)
FirstBam(bam, k) ==
    IF k > Len(bam) THEN Len(bam) + 1
    ELSE IF bam[k] = "bam" THEN k
    ELSE FirstBam(bam, k + 1)

SortedName(bam) == SubSeq(bam, 1, FirstBam(bam, 3) - 1) \o <<"sorted", "bam">>

\* samtools index writes '<bam>.bai'.
IndexName(bam) == bam \o <<"bai">>

sscs == P("sscs", <<"sscs", "bam">>)
sing == P("sscs", <<"singleton", "bam">>)
dcs == P("dcs", <<"dcs", "bam">>)
sscs_sing == P("dcs", <<"sscs", "singleton", "bam">>)
sscs_cor == P("sscs_sc", <<"sscs", "correction", "bam">>)
sing_cor == P("sscs_sc", <<"singleton", "correction", "bam">>)
uncorrected == P("sscs_sc", <<"uncorrected", "bam">>)
sscs_sc == P("sscs_sc", <<"sscs", "sc", "bam">>)
dcs_sc == P("dcs_sc", <<"dcs", "sc", "bam">>)
sscs_sc_sing == P("dcs_sc", <<"sscs", "sc", "singleton", "bam">>)
all_unique == P("dcs_sc", <<"all", "unique", "dcs", "bam">>)

stats(dir) == P(dir, <<"stats", "txt">>)
time_tracker(dir) == P(dir, <<"time_tracker", "txt">>)
tag_fam_size(dir) == <<dir, "ID_tag_fam_size", "png">>
read_families(dir) == P(dir, <<"read_families", "txt">>)

(* ------------------- the statements of consensus() --------------------- *)
I_sampledir(line) == [op |-> "sampledir", line |-> line]
I_makedirs(line, d) == [op |-> "makedirs", line |-> line, dir |-> d]
I_system(line, tool, in, out) ==
    [op |-> "system", line |-> line, tool |-> tool, in |-> in, out |-> out]
I_sort_index(line, bam) == [op |-> "sort_index", line |-> line, bam |-> bam]
I_rename(line, src, dst) == [op |-> "rename", line |-> line, src |-> src, dst |-> dst]
I_merge(line, out, ins) == [op |-> "merge", line |-> line, out |-> out, ins |-> ins]
I_remove(line, p) == [op |-> "remove", line |-> line, path |-> p]

\* Lines 155-206: sample directory, SSCS and DCS.
SSCS_DCS_block ==
    << I_sampledir(160),
       I_makedirs(167, "sscs"),
       I_system(173, "SSCS_maker", <<"INPUT", "bam">>, sscs),
       I_sort_index(180, sscs),
       I_sort_index(181, sing),
       I_makedirs(187, "dcs"),
       I_rename(192, stats("sscs"), stats("dcs")),
       I_rename(194, time_tracker("sscs"), time_tracker("dcs")),
       I_system(199, "DCS_maker", SortedName(sscs), dcs),
       I_sort_index(205, dcs),
       I_sort_index(206, sscs_sing) >>

\* Lines 212-273: the body of 'if args.scorrect is True'.
SC_block ==
    << I_makedirs(212, "sscs_sc"),
       I_rename(214, stats("dcs"), stats("sscs")),
       I_rename(216, time_tracker("dcs"), time_tracker("sscs")),
       I_system(220, "singleton_correction", SortedName(sing), SortedName(sing)),
       I_rename(226, P("sscs", <<"sscs", "correction", "bam">>), sscs_cor),
       I_sort_index(227, sscs_cor),
       I_rename(230, P("sscs", <<"singleton", "correction", "bam">>), sing_cor),
       I_sort_index(231, sing_cor),
       I_rename(234, P("sscs", <<"uncorrected", "bam">>), uncorrected),
       I_sort_index(235, uncorrected),
       I_merge(242, sscs_sc,
               <<SortedName(sscs), SortedName(sscs_cor), SortedName(sing_cor)>>),
       I_sort_index(243, sscs_sc),
       I_makedirs(248, "dcs_sc"),
       I_rename(251, stats("sscs"), stats("dcs_sc")),
       I_rename(253, time_tracker("sscs"), time_tracker("dcs_sc")),
       I_system(257, "DCS_maker", SortedName(sscs_sc), dcs_sc),
       I_sort_index(263, dcs_sc),
       I_sort_index(265, sscs_sc_sing),
       I_merge(272, all_unique,
               <<SortedName(dcs_sc), SortedName(sscs_sc_sing), SortedName(uncorrected)>>),
       I_sort_index(273, all_unique) >>

\* Lines 275-283: statistics, time tracker, plot and families to the sample dir.
Finalize_block ==
    << I_rename(276, stats("dcs_sc"), stats(".")),
       I_rename(278, time_tracker("dcs_sc"), time_tracker(".")),
       I_rename(280, tag_fam_size("sscs"), tag_fam_size(".")),
       I_rename(282, read_families("sscs"), read_families(".")) >>

\* Lines 286-301: the body of 'if args.cleanup is True'.
Cleanup_block ==
    << I_remove(287, time_tracker(".")),
       I_remove(288, P("sssc", <<"badReads", "bam">>)),
       I_remove(290, P("dcs", <<"sscs", "singleton", "sorted", "bam">>)),
       I_remove(291, P("dcs", <<"sscs", "singleton", "sorted", "bam", "bai">>)),
       I_remove(293, P("sssc_sc", <<"singleton", "correction", "sorted", "bam">>)),
       I_remove(294, P("sssc_sc", <<"singleton", "correction", "sorted", "bam", "bai">>)),
       I_remove(295, P("sssc_sc", <<"sscs", "correction", "sorted", "bam">>)),
       I_remove(296, P("sssc_sc", <<"sscs", "correction", "sorted", "bam", "bai">>)),
       I_remove(297, P("sssc_sc", <<"uncorrected", "sorted", "bam">>)),
       I_remove(298, P("sssc_sc", <<"uncorrected", "sorted", "bam", "bai">>)),
       I_remove(300, P("dcs_sc", <<"sscs", "sc", "singleton", "sorted", "bam">>)),
       I_remove(301, P("dcs_sc", <<"sscs", "sc", "singleton", "sorted", "bam", "bai">>)) >>

\* A variant of the test below that takes every value but False as on.
ScorrectIsNotFalse(a) == a["scorrect"] # PyFalse

\* 'if args.scorrect is True'
ScorrectIsTrue(a) == a["scorrect"] = PyTrue

\* 'if args.cleanup is True'
CleanupIsTrue(a) == a["cleanup"] = PyTrue

\* The statements consensus(args) executes, in order, when none raises.
Prog(a) ==
    SSCS_DCS_block
    \o (IF ScorrectIsTrue(a) THEN SC_block ELSE << >>)
    \o Finalize_block
    \o (IF CleanupIsTrue(a) THEN Cleanup_block ELSE << >>)

(* ---------------- the components consensus() shells out to ------------- *)
\* SSCS_maker.py --outfile <dir>/ID.sscs.bam: what consensus() expects beside it.
SSCS_maker_outputs(out) ==
    { out,
      P(out[1], <<"singleton", "bam">>),
      P(out[1], <<"badReads", "bam">>),
      stats(out[1]), time_tracker(out[1]),
      tag_fam_size(out[1]), read_families(out[1]) }

\* DCS_maker.py --infile <x>.sorted.bam --outfile <dir>/...: the duplexes and
\* the consensuses of <x> that found no partner, '<dir>/ID.<x>.singleton.bam'.
DCS_maker_outputs(in, out) ==
    { out, P(out[1], SubSeq(in, 3, Len(in) - 2) \o <<"singleton", "bam">>) }

\* singleton_correction.py --singleton <dir>/ID.singleton.sorted.bam
singleton_correction_outputs(in) ==
    { P(in[1], <<"sscs", "correction", "bam">>),
      P(in[1], <<"singleton", "correction", "bam">>),
      P(in[1], <<"uncorrected", "bam">>) }

ToolOutputs(i) ==
    CASE i.tool = "SSCS_maker" -> SSCS_maker_outputs(i.out)
      [] i.tool = "DCS_maker" -> DCS_maker_outputs(i.in, i.out)
      [] i.tool = "singleton_correction" -> singleton_correction_outputs(i.in)

(* ------------------------ contents of BAM files ------------------------ *)
INPUT == <<"INPUT", "bam">>

Get(c, p) == IF p \in DOMAIN c THEN c[p] ELSE {}
Put(c, p, v) == [q \in (DOMAIN c) \cup {p} |-> IF q = p THEN v ELSE c[q]]
Drop(c, p) == [q \in (DOMAIN c) \ {p} |-> c[q]]
Move(c, src, dst) == IF src \in DOMAIN c THEN Drop(Put(c, dst, c[src]), src) ELSE c

\* The ways a component sends each molecule of S to one of its outputs, and
\* the molecules f sends to the output k.
Fates(S, kinds) == [S -> kinds]
Part(f, k) == {m \in DOMAIN f : f[m] = k}

\* SSCS_maker: a family becomes a consensus record, a singleton or bad reads.
SSCS_maker_contents(in, out) ==
    { (out :> Part(f, "sscs"))
        @@ (P(out[1], <<"singleton", "bam">>) :> Part(f, "singleton"))
        @@ (P(out[1], <<"badReads", "bam">>) :> Part(f, "badReads")) :
      f \in Fates(in, {"sscs", "singleton", "badReads"}) }

\* DCS_maker: a consensus is paired into a duplex or left without partner.
DCS_maker_contents(inpath, in, out) ==
    { (out :> Part(f, "dcs"))
        @@ (P(out[1], SubSeq(inpath, 3, Len(inpath) - 2) \o <<"singleton", "bam">>)
              :> Part(f, "singleton")) :
      f \in Fates(in, {"dcs", "singleton"}) }

\* singleton_correction: a singleton is corrected by a complementary consensus,
\* by a complementary singleton, or stays uncorrected.
singleton_correction_contents(inpath, in) ==
    { (P(inpath[1], <<"sscs", "correction", "bam">>) :> Part(f, "sscs"))
        @@ (P(inpath[1], <<"singleton", "correction", "bam">>) :> Part(f, "singleton"))
        @@ (P(inpath[1], <<"uncorrected", "bam">>) :> Part(f, "uncorrected")) :
      f \in Fates(in, {"sscs", "singleton", "uncorrected"}) }

ToolContents(i, c) ==
    CASE i.tool = "SSCS_maker" -> SSCS_maker_contents(Get(c, i.in), i.out)
      [] i.tool = "DCS_maker" -> DCS_maker_contents(i.in, Get(c, i.in), i.out)
      [] i.tool = "singleton_correction" -> singleton_correction_contents(i.in, Get(c, i.in))

(* ------------------- the command lines of os.system -------------------- *)
HelpStrings ==
    { fastq1_help, fastq2_help, output_help, bwa_help, samtools_help, ref_help,
      cinput_help, coutput_help, cleanup_help }

\* A path or an executable the user named, and not a help text that stands in
\* for it: a help text names no file and splits into several words.
Usable(v) == v[1] = "str" /\ v[2] \notin HelpStrings

\* 'if args.bedfile is False: ... else: ... --bedfile {args.bedfile}'
BedfileIsFalse(a) == a["bedfile"] = PyFalse

\* The options of the command line of a component beside its files, as the
\* Python values that str.format puts into it.
Options(i, a) ==
    LET cutoff == IF i.tool = "SSCS_maker" THEN [cutoff |-> a["cutoff"]] ELSE << >>
        bed == IF BedfileIsFalse(a) THEN << >> ELSE [bedfile |-> a["bedfile"]] IN
    cutoff @@ bed

\* The component finds its script's arguments: the input BAM and the output
\* directory are paths and not help texts.
CommandRuns(a) == Usable(a["bam"]) /\ Usable(a["c_output"])

(* ------------------------------ state ---------------------------------- *)
\* The values a flag is given on the command line, or a key in the config file.
Toggle == {"True", "False", ""}
Flag(S) == {<< >>} \cup {<<v>> : v \in S}

CliInputs ==
    [ cmd      : {"consensus"},
      bam      : {<<"in.bam">>},
      c_output : {<<"out">>},
      samtools : {<<"samtools">>},
      scorrect : Flag(Toggle \cup {"OFF"}),
      bedfile  : {<< >>},
      cutoff   : {<< >>},
      cleanup  : Flag(Toggle) ]

\* The items of the [consensus] section of a config file.
Sections ==
    { [fastq2bam |-> << >>, consensus |-> sec] :
        sec \in {<< >>}
            \cup {[scorrect |-> v] : v \in Toggle}
            \cup {[cleanup |-> v] : v \in Toggle}
            \cup {[scorrect |-> v, cleanup |-> w] : v \in Toggle, w \in Toggle} }

ConfigInputs == {<< >>} \cup {<<sec>> : sec \in Sections}

\* The sample directory before the run: absent, present, or with a 'sscs'
\* directory left by an earlier run.
InitDirs == { {}, {"."}, {".", "sscs"} }

Init ==
    /\ cli \in CliInputs
    /\ config \in ConfigInputs
    /\ args = << >>
    /\ status = "start"
    /\ ip = 0
    /\ dirs \in InitDirs
    /\ files = {}
    /\ log = << >>
    /\ content = (INPUT :> {})
    /\ caller = << >>

Running == status = "running" /\ ip <= Len(Prog(args))
Cur == Prog(args)[ip]

Failures == Cardinality({i \in 1..Len(log) : log[i].rc # 0})

\* The exit statuses the next external tool may return.
Rcs(failed) == IF failed < MaxFailures THEN {0, 1} ELSE {0}

Call(tool, line, in, out, rc) ==
    [tool |-> tool, line |-> line, in |-> in, out |-> out, rc |-> rc]

SystemCall(tool, line, in, out, rc, opts) ==
    [tool |-> tool, line |-> line, in |-> in, out |-> out, rc |-> rc, opts |-> opts]

Raise ==
    /\ status' = "raised"
    /\ UNCHANGED ip

Step ==
    /\ ip' = ip + 1
    /\ UNCHANGED status

(* ----------------------------- __main__ -------------------------------- *)
\* Lines 304-442 for 'consensus': parse, check the required arguments, call.
Main ==
    /\ status = "start" /\ cli.cmd = "consensus"
    /\ args' = ParseArgs(config, cli)
    /\ IF MissingRequired(args')
       THEN status' = "usage" /\ UNCHANGED ip
       ELSE status' = "running" /\ ip' = 1
    /\ UNCHANGED <<cli, config, dirs, files, log, content, caller>>

\* Lines 304-433 for 'fastq2bam': parse, check the required arguments and the
\* barcode design, call.
MainFastq2bam ==
    /\ status = "start" /\ cli.cmd = "fastq2bam"
    /\ args' = ParseArgs_a(config, cli)
    /\ status' =
         IF MissingRequired_a(args') THEN "usage"
         ELSE IF args'["bpattern"] = None /\ args'["blist"] = None THEN "usage"
         ELSE IF args'["bpattern"] = None THEN "TypeError"
         ELSE IF Findall(PatternClass, Chars(args'["bpattern"][2])) # << >> THEN "ValueError"
         ELSE IF args'["blist"] # None
                 /\ Findall(ListClass, Join(ReadLines(args'["blist"][2]))) # << >>
         THEN "ValueError"
         ELSE "fastq2bam"
    /\ ip' = IF status' = "fastq2bam" THEN 1 ELSE ip
    /\ UNCHANGED <<cli, config, dirs, files, log, content, caller>>

(* ---------------------------- fastq2bam() ------------------------------ *)
fastq_dir == "fastq_tag"
bam_dir == "bamfiles"
barcode_R1 == <<fastq_dir, "FILENAME_barcode_R1", "fastq">>
barcode_R2 == <<fastq_dir, "FILENAME_barcode_R2", "fastq">>
aligned_bam == <<bam_dir, "FILENAME", "bam">>

\* Lines 92-100: the barcode options of the extract_barcodes.py command line.
BarcodeOptions(a) ==
    IF a["blist"] # None /\ a["bpattern"] # None
    THEN [bpattern |-> a["bpattern"], blist |-> a["blist"]]
    ELSE IF a["blist"] = None
    THEN [bpattern |-> a["bpattern"]]
    ELSE [blist |-> a["blist"]]

\* Lines 76-100: the two output directories, then extract_barcodes.py, whose
\* exit status is dropped.
ExtractBarcodes ==
    /\ status = "fastq2bam" /\ ip = 1
    /\ \E access \in BOOLEAN :
         dirs' = IF access THEN dirs \cup {fastq_dir, bam_dir} ELSE dirs
    /\ LET runs == /\ Usable(args["fastq1"]) /\ Usable(args["fastq2"])
                   /\ Usable(args["output"]) /\ fastq_dir \in dirs' IN
       \E rc \in (IF runs THEN Rcs(Failures) ELSE {1}) :
         /\ log' = Append(log, SystemCall("extract_barcodes", 93,
                                          <<args["fastq1"], args["fastq2"]>>,
                                          barcode_R1, rc, BarcodeOptions(args)))
         /\ \/ runs /\ files' = files \cup {barcode_R1, barcode_R2}
            \/ rc # 0 /\ files' = files
    /\ ip' = 2
    /\ UNCHANGED <<cli, config, args, status, content, caller>>

\* Lines 106-118: bwa mem | samtools view | samtools sort into the BAM file,
\* then samtools index; the exit statuses are dropped.
BwaAlign ==
    /\ status = "fastq2bam" /\ ip = 2
    /\ IF ~Usable(args["bwa"]) \/ ~Usable(args["samtools"]) \/ bam_dir \notin dirs
       THEN \* Popen(bwa ...), Popen(samtools ...) or open(bam, 'w') raises
            /\ Raise
            /\ UNCHANGED <<files, log>>
       ELSE \E rc1 \in (IF barcode_R1 \in files /\ Usable(args["ref"])
                         THEN Rcs(Failures) ELSE {1}) :
            \E rc2 \in Rcs(Failures + (IF rc1 = 0 THEN 0 ELSE 1)) :
              /\ status' = "returned"
              /\ ip' = 3
              /\ files' = files \cup {aligned_bam}
                            \cup (IF rc2 = 0 THEN {IndexName(aligned_bam)} ELSE {})
              /\ log' = Append(Append(log,
                                 Call("bwa", 110, <<barcode_R1, barcode_R2>>, aligned_bam, rc1)),
                                 Call("index", 118, <<aligned_bam>>, IndexName(aligned_bam), rc2))
    /\ UNCHANGED <<cli, config, args, dirs, content, caller>>

(* ---------------------------- consensus() ------------------------------ *)
\* Lines 159-161.
SampleDir ==
    /\ Running /\ Cur.op = "sampledir"
    /\ IF "." \in dirs
       THEN Step /\ UNCHANGED dirs
       ELSE IF "output" \notin DOMAIN args
       THEN Raise /\ UNCHANGED dirs
       ELSE /\ Step
            /\ \E access \in BOOLEAN :
                 dirs' = IF access THEN dirs \cup {"."} ELSE dirs
    /\ UNCHANGED <<cli, config, args, files, log, content, caller>>

\* os.makedirs: creates the directory and its parents, raises when it exists.
Makedirs ==
    /\ Running /\ Cur.op = "makedirs"
    /\ IF Cur.dir \in dirs
       THEN Raise /\ UNCHANGED dirs
       ELSE Step /\ dirs' = dirs \cup {".", Cur.dir}
    /\ UNCHANGED <<cli, config, args, files, log, content, caller>>

\* os.system(...): the exit status is dropped.  A command line that a help
\* text broke fails before the component writes anything.
System ==
    /\ Running /\ Cur.op = "system"
    /\ \E rc \in (IF CommandRuns(args) THEN Rcs(Failures) ELSE {1}) :
         /\ log' = Append(log, SystemCall(Cur.tool, Cur.line, <<Cur.in>>, Cur.out, rc,
                                          Options(Cur, args)))
         /\ \/ /\ CommandRuns(args)
               /\ files' = files \cup ToolOutputs(Cur)
               /\ \E written \in ToolContents(Cur, content) : content' = written @@ content
            \/ rc # 0 /\ files' = files /\ content' = content
    /\ Step
    /\ UNCHANGED <<cli, config, args, dirs, caller>>

\* sort_index(bam, samtools), lines 131-140.
SortIndex ==
    /\ Running /\ Cur.op = "sort_index"
    /\ LET bam == Cur.bam
           sorted_bam == SortedName(bam) IN
       \E rc1 \in Rcs(Failures) :
         LET sort == Call("sort", 135, <<bam>>, sorted_bam, rc1) IN
         IF ~Usable(args["samtools"]) \/ bam[1] \notin dirs
         THEN \* Popen(samtools ...) or open(sorted_bam, 'w') raises
              /\ Raise
              /\ rc1 = 0
              /\ UNCHANGED <<files, log, content>>
         ELSE IF bam \notin files
         THEN \* os.remove(bam) raises
              /\ Raise
              /\ files' = files \cup {sorted_bam}
              /\ log' = Append(log, sort)
              /\ content' = Put(content, sorted_bam, {})
         ELSE \E rc2 \in Rcs(Failures + (IF rc1 = 0 THEN 0 ELSE 1)) :
              /\ Step
              /\ files' = ((files \cup {sorted_bam}) \ {bam})
                            \cup (IF rc2 = 0 THEN {IndexName(sorted_bam)} ELSE {})
              /\ log' = Append(Append(log, sort),
                               Call("index", 138, <<sorted_bam>>, IndexName(sorted_bam), rc2))
              /\ \E sorted \in {Get(content, bam)} \cup (IF rc1 = 0 THEN {} ELSE {{}}) :
                   content' = Drop(Put(content, sorted_bam, sorted), bam)
    /\ UNCHANGED <<cli, config, args, dirs, caller>>

\* os.rename(src, dst)
Rename ==
    /\ Running /\ Cur.op = "rename"
    /\ IF Cur.src \in files /\ Cur.dst[1] \in dirs
       THEN /\ Step
            /\ files' = (files \ {Cur.src}) \cup {Cur.dst}
            /\ content' = Move(content, Cur.src, Cur.dst)
       ELSE Raise /\ UNCHANGED <<files, content>>
    /\ UNCHANGED <<cli, config, args, dirs, log, caller>>

\* A variant of the merge below that leaves out the last input file.
MergedButLast(c, ins) == UNION {Get(c, ins[n]) : n \in 1..(Len(ins) - 1)}

\* samtools merge: the records of every input file.
Merged(c, ins) == UNION {Get(c, ins[n]) : n \in 1..Len(ins)}

\* call("samtools merge out in1 in2 in3"): the exit status is dropped.
Merge ==
    /\ Running /\ Cur.op = "merge"
    /\ \E rc \in Rcs(Failures) :
         /\ log' = Append(log, Call("merge", Cur.line, Cur.ins, Cur.out, rc))
         /\ \/ /\ files' = files \cup {Cur.out}
               /\ content' = Put(content, Cur.out, Merged(content, Cur.ins))
            \/ rc # 0 /\ files' = files /\ content' = content
    /\ Step
    /\ UNCHANGED <<cli, config, args, dirs, caller>>

\* os.remove(path)
Remove ==
    /\ Running /\ Cur.op = "remove"
    /\ IF Cur.path \in files
       THEN Step /\ files' = files \ {Cur.path} /\ content' = Drop(content, Cur.path)
       ELSE Raise /\ UNCHANGED <<files, content>>
    /\ UNCHANGED <<cli, config, args, dirs, log, caller>>

\* consensus() returns and the program exits.
Return ==
    /\ status = "running" /\ ip > Len(Prog(args))
    /\ status' = "returned"
    /\ UNCHANGED <<cli, config, args, ip, dirs, files, log, content, caller>>

Next ==
    \/ Main
    \/ SampleDir
    \/ Makedirs
    \/ System
    \/ SortIndex
    \/ Rename
    \/ Merge
    \/ Remove
    \/ Return

Spec == Init /\ [][Next]_vars

(* ------------- both subcommands over a wider set of arguments ---------- *)
\* The consensus command lines: every required argument given or not, a
\* region list, the 'False' of the help text or none, a cutoff or none.
ConsensusCli ==
    [ cmd      : {"consensus"},
      bam      : Flag({"in.bam"}),
      c_output : Flag({"out"}),
      samtools : Flag({"samtools"}),
      scorrect : Flag({"True"}),
      bedfile  : Flag({"False", "my.bed"}),
      cutoff   : Flag({"0.5", "1.5"}),
      cleanup  : {<< >>} ]

\* The fastq2bam command lines: every required argument given or not, a
\* barcode pattern or none, a barcode list or none.
Fastq2bamCli ==
    [ cmd      : {"fastq2bam"},
      fastq1   : Flag({"s_R1.fastq"}),
      fastq2   : Flag({"s_R2.fastq"}),
      output   : Flag({"out"}),
      name     : {<< >>},
      bwa      : Flag({"bwa"}),
      ref      : Flag({"ref.fa"}),
      samtools : Flag({"samtools"}),
      bpattern : Flag({"NNT", "NNX", "N|T"}),
      blist    : Flag({"barcodes.txt", "faulty.txt"}) ]

\* The config files: none, or one whose sections set at most one key.
ArgsSections ==
    { [fastq2bam |-> a, consensus |-> << >>] :
        a \in {<< >>, [bpattern |-> "NNT"], [blist |-> "barcodes.txt"],
               [samtools |-> "samtools"]} }
    \cup
    { [fastq2bam |-> << >>, consensus |-> b] :
        b \in {[bedfile |-> "False"], [bedfile |-> "cfg.bed"], [cutoff |-> "0.9"],
               [bam |-> "in.bam"]} }

ArgsConfigInputs == {<< >>} \cup {<<sec>> : sec \in ArgsSections}

\* The output directory of fastq2bam before the run: without or with the two
\* subdirectories.
InitDirs_a == { {}, {fastq_dir, bam_dir} }

InitArgs ==
    /\ cli \in ConsensusCli \cup Fastq2bamCli
    /\ config \in ArgsConfigInputs
    /\ args = << >>
    /\ status = "start"
    /\ ip = 0
    /\ dirs \in (IF cli.cmd = "consensus" THEN InitDirs ELSE InitDirs_a)
    /\ files = {}
    /\ log = << >>
    /\ content = (INPUT :> {})
    /\ caller = << >>

NextArgs ==
    \/ Main
    \/ MainFastq2bam
    \/ ExtractBarcodes
    \/ BwaAlign
    \/ SampleDir
    \/ Makedirs
    \/ System
    \/ SortIndex
    \/ Rename
    \/ Merge
    \/ Remove
    \/ Return

SpecArgs == InitArgs /\ [][NextArgs]_vars

(* --------------- the consensus run over the input's molecules ---------- *)
Molecules == 1..MaxMolecules

\* Singleton correction asked for on the command line, without config file,
\* over every input of at most MaxMolecules molecules.
InitData ==
    /\ cli = [ cmd |-> "consensus", bam |-> <<"in.bam">>, c_output |-> <<"out">>,
               samtools |-> <<"samtools">>, scorrect |-> <<"True">>,
               bedfile |-> << >>, cutoff |-> << >>, cleanup |-> << >> ]
    /\ config = << >>
    /\ args = << >>
    /\ status = "start"
    /\ ip = 0
    /\ dirs \in InitDirs
    /\ files = {}
    /\ log = << >>
    /\ content \in {INPUT :> S : S \in SUBSET Molecules}
    /\ caller = << >>

\* The runs in which every tool returns 0.  Without config file args.cleanup
\* is None and no os.remove is reached.
NextData ==
    \/ Main
    \/ SampleDir
    \/ Makedirs
    \/ System /\ Failures' = 0
    \/ SortIndex /\ Failures' = 0
    \/ Rename
    \/ Merge /\ Failures' = 0
    \/ Return

SpecData == InitData /\ [][NextData]_vars

(* ------------------ the consensus caller of SSCS_maker ----------------- *)
\* The numbers the float strings of the model stand for, as <<num, den>>.
Rational(s) ==
    CASE s = "0.5" -> <<1, 2>>
      [] s = "0.7" -> <<7, 10>>
      [] s = "0.8" -> <<4, 5>>
      [] s = "0.9" -> <<9, 10>>
      [] s = "1.5" -> <<3, 2>>

Bases == {"A", "C", "G", "T"}

\* The bases of the reads of one family at one column, in the read order.
Columns == UNION {[1..n -> Bases] : n \in 1..MaxFamily}

\* The tally of a column: the occurrences of a base, and where it is first seen.
count(base, column) == Cardinality({n \in 1..Len(column) : column[n] = base})
first_seen(base, column) ==
    CHOOSE n \in 1..Len(column) :
        column[n] = base /\ \A m \in 1..(n - 1) : column[m] # base

\* A variant of the majority below that takes the base of the first read.
first_base(column) == column[1]

\* The base with the most occurrences, ties broken by the first base seen.
majority_base(column) ==
    CHOOSE b \in Bases :
        /\ count(b, column) > 0
        /\ \A c \in Bases \ {b} :
             \/ count(c, column) < count(b, column)
             \/ /\ count(c, column) = count(b, column)
                /\ first_seen(b, column) < first_seen(c, column)

\* A variant of the call below that rejects a fraction equal to the cutoff.
consensus_base_above(column, cutoff) ==
    LET b == majority_base(column) IN
    IF count(b, column) * cutoff[2] > cutoff[1] * Len(column) THEN b ELSE "N"

\* The call of a column: the majority base when count / family_size >= cutoff,
\* compared as integers, else N.
consensus_base(column, cutoff) ==
    LET b == majority_base(column) IN
    IF count(b, column) * cutoff[2] >= cutoff[1] * Len(column) THEN b ELSE "N"

CallerCutoffs == {"0.5", "0.7", "0.8"}

\* One column of one family and a cutoff, not yet called.
InitCaller ==
    /\ cli = [cmd |-> "SSCS_maker"]
    /\ config = << >>
    /\ args = << >>
    /\ status = "start"
    /\ ip = 0
    /\ dirs = {}
    /\ files = {}
    /\ log = << >>
    /\ content = (INPUT :> {})
    /\ caller \in [column : Columns, cutoff : CallerCutoffs]

\* The caller calls the column.
CallColumn ==
    /\ cli.cmd = "SSCS_maker" /\ "called" \notin DOMAIN caller
    /\ caller' = [ column |-> caller.column,
                   cutoff |-> caller.cutoff,
                   called |-> consensus_base(caller.column, Rational(caller.cutoff)),
                   runs   |-> 1 ]
    /\ UNCHANGED <<cli, config, args, status, ip, dirs, files, log, content>>

\* The column with the reads i and j exchanged.
Swapped(column, i, j) ==
    [n \in 1..Len(column) |->
        IF n = i THEN column[j] ELSE IF n = j THEN column[i] ELSE column[n]]

\* The caller is run again on the same family with two of its reads
\* exchanged; every read order is reached by a chain of such runs.
ReCall ==
    /\ cli.cmd = "SSCS_maker" /\ "called" \in DOMAIN caller
    /\ \E i \in 1..Len(caller.column) : \E j \in (i + 1)..Len(caller.column) :
         LET column == Swapped(caller.column, i, j) IN
         caller' = [ column |-> column,
                     cutoff |-> caller.cutoff,
                     called |-> consensus_base(column, Rational(caller.cutoff)),
                     runs   |-> 2 ]
    /\ UNCHANGED <<cli, config, args, status, ip, dirs, files, log, content>>

NextCaller ==
    \/ CallColumn
    \/ ReCall

SpecCaller == InitCaller /\ [][NextCaller]_vars

(* ===================== properties of the consensus run ================== *)
Ended == status \in {"returned", "raised"}
Started == status \in {"running", "returned", "raised"}

Invoked(tool) == \E i \in 1..Len(log) : log[i].tool = tool

\* What the user gave for a key: the command line, else the config file.
ConfigItem(key) ==
    IF config = << >> THEN << >>
    ELSE IF key \in DOMAIN config[1].consensus THEN <<config[1].consensus[key]>>
    ELSE << >>
UserValue(key) == IF cli[key] # << >> THEN cli[key] ELSE ConfigItem(key)

\* The position of the first statement after the SSCS and DCS stages, and of
\* the first statement after the last stage.
AfterDCS == Len(SSCS_DCS_block) + 1
FinalizeStart == Len(Prog(args)) + 1
                   - Len(Finalize_block)
                   - (IF args["cleanup"] = PyTrue THEN Len(Cleanup_block) ELSE 0)
CleanupStart == FinalizeStart + Len(Finalize_block)

\* The statements of every stage have been executed and every tool returned 0.
StagesCompleted == Started /\ ip >= FinalizeStart /\ Failures = 0

Components == {"SSCS_maker", "DCS_maker", "singleton_correction", "merge"}
StageOrder ==
    <<"SSCS_maker", "DCS_maker", "singleton_correction", "merge", "DCS_maker", "merge">>
ComponentCalls == SelectSeq(log, LAMBDA e : e.tool \in Components)

\* The file p was written by a sort that returned 0 and then indexed by an
\* index that returned 0, both before the j-th invocation.
SortedAndIndexed(p, j) ==
    \E i \in 1..(j - 1) :
        /\ log[i].tool = "sort" /\ log[i].out = p /\ log[i].rc = 0
        /\ \E k \in (i + 1)..(j - 1) :
             log[k].tool = "index" /\ log[k].in = <<p>> /\ log[k].rc = 0

\* C1: with singleton correction enabled the components run in the order
\* SSCS, DCS, SC, SSCS+SC merge, DCS+SC, all-unique merge, and a component is
\* invoked only after every earlier component completed successfully and each
\* artifact it consumes was sorted and indexed successfully.
C1_StagesInOrder ==
    (Started /\ args["scorrect"] = PyTrue) =>
        /\ Len(ComponentCalls) <= Len(StageOrder)
        /\ \A n \in 1..Len(ComponentCalls) : ComponentCalls[n].tool = StageOrder[n]
        /\ \A j \in 1..Len(log) :
             log[j].tool \in Components \ {"SSCS_maker"} =>
                /\ \A h \in 1..(j - 1) : log[h].tool \in Components => log[h].rc = 0
                /\ \A n \in 1..Len(log[j].in) : SortedAndIndexed(log[j].in[n], j)

\* C2: a run whose stages all completed, with singleton correction on or off,
\* ends with the statistics file, the time tracker and the family-size plot in
\* the sample directory (the time tracker unless cleanup removed it).
C2_ReachesFinalized ==
    (Ended /\ StagesCompleted) =>
        /\ {stats("."), tag_fam_size(".")} \subseteq files
        /\ time_tracker(".") \in files \/ args["cleanup"] = PyTrue

\* C3: with singleton correction off, a run whose stages all completed has
\* merged exactly the sorted DCS and the sorted unpaired-SSCS artifacts into
\* the all-unique file.
C3_MergeWithoutSC ==
    (Ended /\ StagesCompleted /\ args["scorrect"] # PyTrue) =>
        \E i \in 1..Len(log) :
            /\ log[i].tool = "merge"
            /\ {log[i].in[n] : n \in 1..Len(log[i].in)}
                 = {SortedName(dcs), SortedName(sscs_sing)}
            /\ SortedName(log[i].out) \in files

SCDirs == {"sscs_sc", "dcs_sc"}

\* C4: with singleton correction off, no sscs_sc or dcs_sc directory, no file
\* in them, no output of the singleton correction and no invocation of the
\* singleton correction, of a merge or of the DCS+SC maker ever exists.
C4_NoSCArtifacts ==
    (Started /\ args["scorrect"] # PyTrue) =>
        /\ dirs \cap SCDirs = {}
        /\ \A f \in files :
             f[1] \notin SCDirs /\ f \notin singleton_correction_outputs(SortedName(sing))
        /\ \A i \in 1..Len(log) :
             log[i].tool \notin {"singleton_correction", "merge"} /\ log[i].out[1] \notin SCDirs

\* C4 happens: singleton correction is off and the DCS stage is behind the run.
C4_Witness ==
    /\ Started /\ args["scorrect"] # PyTrue
    /\ ip >= AfterDCS
    /\ {SortedName(dcs), SortedName(sscs_sing)} \subseteq files

\* C5: a tool invocation that returned non-zero is the last thing the run
\* executed: no later tool is invoked.
C5_HaltOnFailure ==
    \A i \in 1..Len(log) : log[i].rc # 0 => i = Len(log)

\* The invocations a step adds to the log.
NewCalls == {log'[i] : i \in (Len(log) + 1)..Len(log')}

\* C6: a step in which the sort of an artifact fails leaves that artifact in
\* place, a step in which only the index fails leaves the sorted artifact in
\* place, and either leaves every file of the earlier stages untouched.
C6_FailedSortKeepsArtifact ==
    [][ \A e \in NewCalls :
          (e.tool \in {"sort", "index"} /\ e.rc # 0) =>
              /\ e.in[1] \in files => e.in[1] \in files'
              /\ e.tool = "index" => e.in[1] \in files'
              /\ \A f \in files : f[1] # e.in[1][1] => f \in files' ]_vars

\* C7: when neither the command line nor the config file sets scorrect, a run
\* that gets past the DCS stage enters the singleton-correction stage.
C7_DefaultOn ==
    (Ended /\ ip >= AfterDCS /\ UserValue("scorrect") = << >>) =>
        "sscs_sc" \in dirs /\ Invoked("singleton_correction")

OffValues == {"False", "OFF"}
OnValues == {"True"}

\* C8: with the off value given for scorrect the singleton correction is never
\* executed; with the on value a run that gets past the DCS stage executes it.
C8_ToggleOff ==
    /\ (Started /\ UserValue("scorrect") # << >> /\ UserValue("scorrect")[1] \in OffValues)
          => ~Invoked("singleton_correction") /\ "sscs_sc" \notin dirs
    /\ (Ended /\ ip >= AfterDCS
          /\ UserValue("scorrect") # << >> /\ UserValue("scorrect")[1] \in OnValues)
          => Invoked("singleton_correction")

\* C9: when neither the command line nor the config file asks for cleanup, the
\* run deletes nothing after finalization: the time tracker stays in the
\* sample directory and no cleanup statement is executed.
C9_DefaultNoCleanup ==
    (Started /\ UserValue("cleanup") = << >> /\ ip >= CleanupStart) =>
        /\ time_tracker(".") \in files
        /\ ip = CleanupStart

Intermediates ==
    { P("sscs", <<"badReads", "bam">>),
      SortedName(sscs_sing), IndexName(SortedName(sscs_sing)),
      SortedName(sing_cor), IndexName(SortedName(sing_cor)),
      SortedName(sscs_cor), IndexName(SortedName(sscs_cor)),
      SortedName(uncorrected), IndexName(SortedName(uncorrected)),
      SortedName(sscs_sc_sing), IndexName(SortedName(sscs_sc_sing)) }

Finals ==
    { stats("."), SortedName(sscs), SortedName(dcs), SortedName(dcs_sc),
      SortedName(all_unique) }

\* C10: with cleanup requested, the cleanup statements raise nothing, and when
\* the run has returned none of the intermediate artifacts exists while the
\* statistics and the final SSCS, DCS, DCS+SC and all-unique files remain.
C10_CleanupCompletes ==
    (Started /\ UserValue("cleanup") = <<"True">> /\ ip >= CleanupStart) =>
        /\ status # "raised"
        /\ status = "returned" =>
             Intermediates \cap files = {} /\ Finals \subseteq files

(* ================== properties of the argument handling ================= *)
\* What the config file sets for a key of the running subcommand: the items of
\* [fastq2bam] reach both subparsers, those of [consensus] the consensus one.
ConfigSets(key) ==
    IF config = << >> THEN << >>
    ELSE IF cli.cmd = "consensus" /\ key \in DOMAIN config[1].consensus
    THEN <<config[1].consensus[key]>>
    ELSE IF key \in DOMAIN config[1].fastq2bam THEN <<config[1].fastq2bam[key]>>
    ELSE << >>

\* What the user supplied for a key: the command line, else the config file.
Supplied(key) == IF cli[key] # << >> THEN cli[key] ELSE ConfigSets(key)

Parsed == status # "start"
ComponentTools == {"SSCS_maker", "DCS_maker", "singleton_correction"}

\* C11: when the user supplies no region list, or the disabled value for it,
\* no SSCS maker, DCS maker or singleton correction is invoked with a region
\* list.
C11_NoRegionList ==
    (cli.cmd = "consensus"
       /\ (Supplied("bedfile") = << >> \/ Supplied("bedfile")[1] \in OffValues)) =>
        \A i \in 1..Len(log) :
            log[i].tool \in ComponentTools => "bedfile" \notin DOMAIN log[i].opts

Dests == IF cli.cmd = "consensus" THEN DOMAIN ConsensusArgs ELSE Fastq2bamArgs
ArgType(dest) == IF cli.cmd = "consensus" THEN ConsensusArgs[dest] ELSE "str"

\* C12: for every argument of the running subcommand, the parsed value is the
\* command-line value when the flag is given, and otherwise the value of the
\* config file when the config file sets it (the built-in defaults are left to
\* C7, C9 and C19).
C12_Precedence ==
    Parsed =>
        \A dest \in Dests :
            /\ cli[dest] # << >> => args[dest] = ApplyType(ArgType(dest), cli[dest][1])
            /\ (cli[dest] = << >> /\ ConfigSets(dest) # << >>) =>
                  args[dest] = ApplyType(ArgType(dest), ConfigSets(dest)[1])

Required ==
    IF cli.cmd = "consensus" THEN {"bam", "c_output", "samtools"}
    ELSE {"fastq1", "fastq2", "output", "bwa", "ref", "samtools"}

\* C13: when a required argument of the running subcommand is supplied neither
\* on the command line nor in the config file, the program ends with the usage
\* message and has created no directory, written no file and invoked no tool.
C13_MissingRequired ==
    (Parsed /\ \E k \in Required : Supplied(k) = << >>) =>
        status = "usage" /\ files = {} /\ log = << >>

Alphabet == {"A", "C", "G", "T", "N"}
OutsideAlphabet(chars) == \E n \in 1..Len(chars) : chars[n] \notin Alphabet

AllRequired == \A k \in Required : Supplied(k) # << >>
PatternGiven == Supplied("bpattern") # << >>
ListGiven == Supplied("blist") # << >>
BadPattern == PatternGiven /\ OutsideAlphabet(Chars(Supplied("bpattern")[1]))
BadList == ListGiven /\ OutsideAlphabet(Join(ReadLines(Supplied("blist")[1])))

\* C14: fastq2bam with its required arguments and a barcode pattern or list
\* that holds a character other than A, C, G, T, N ends with an exception
\* before any tool is invoked; with none that holds such a character it does
\* not end with the invalid-barcode exception.
C14_InvalidBarcodes ==
    (cli.cmd = "fastq2bam" /\ Parsed /\ AllRequired) =>
        /\ (BadPattern \/ BadList) =>
              status \in {"ValueError", "TypeError"} /\ log = << >>
        /\ (~BadPattern /\ ~BadList) => status # "ValueError"

\* The barcode options the user supplied, as the command line would hold them.
SuppliedBarcodeOptions ==
    [k \in {o \in {"bpattern", "blist"} : Supplied(o) # << >>} |-> Str(Supplied(k)[1])]

\* C15: fastq2bam with its required arguments and a valid pattern, a valid
\* list or both passes the checks of the arguments, invokes the barcode
\* extraction with exactly the supplied barcode options, and a run that
\* returns has invoked the aligner after it.
C15_BarcodeCombinations ==
    (cli.cmd = "fastq2bam" /\ Parsed /\ AllRequired
       /\ (PatternGiven \/ ListGiven) /\ ~BadPattern /\ ~BadList) =>
        /\ status \notin {"usage", "TypeError", "ValueError"}
        /\ ip >= 2 =>
              /\ log[1].tool = "extract_barcodes"
              /\ log[1].opts = SuppliedBarcodeOptions
        /\ status = "returned" => Len(log) >= 2 /\ log[2].tool = "bwa"

\* C16: consensus with its required arguments on the command line and no
\* config file does not raise at the creation of the sample directory, and past
\* it the sample directory exists.
C16_FreshSampleDir ==
    (cli.cmd = "consensus" /\ config = << >> /\ Started) =>
        /\ ~(status = "raised" /\ ip = 1)
        /\ ip >= 2 => "." \in dirs

\* C17: a consensus run for a sample that has stage directories of an earlier
\* run does not fail on them: no run ends raising at the creation of a stage
\* directory.
C17_Regenerates ==
    (cli.cmd = "consensus" /\ status = "raised") => Prog(args)[ip].op # "makedirs"

InUnitInterval(v) ==
    v[1] = "float" /\ 0 < Rational(v[2])[1] /\ Rational(v[2])[1] <= Rational(v[2])[2]

\* C19: every SSCS maker is invoked with a cutoff that is a number in (0,1],
\* and with the cutoff 0.7 when the user supplied none.
C19_CutoffDefault ==
    cli.cmd = "consensus" =>
        \A i \in 1..Len(log) :
            log[i].tool = "SSCS_maker" =>
                /\ Supplied("cutoff") = << >> => log[i].opts["cutoff"] = Float("0.7")
                /\ InUnitInterval(log[i].opts["cutoff"])

(* ===================== properties of the data flow ===================== *)
\* The records of the SSCS stage, and the three inputs of the final merge.
Records == Get(content, SortedName(sscs)) \cup Get(content, SortedName(sing))
InDCS == Get(content, SortedName(dcs_sc))
InUnpaired == Get(content, SortedName(sscs_sc_sing))
InUncorrected == Get(content, SortedName(uncorrected))

FinalMergeDone ==
    /\ Started /\ args["scorrect"] = PyTrue
    /\ Failures = 0
    /\ SortedName(all_unique) \in files

\* C18: with singleton correction on and every tool returning 0, once the
\* all-unique file is written every consensus record and every singleton of
\* the SSCS stage is in exactly one of the three merged inputs (duplexes,
\* consensuses without partner, uncorrected singletons), and the all-unique
\* file holds exactly those records.
C18_Conservation ==
    FinalMergeDone =>
        /\ InDCS \cap InUnpaired = {}
        /\ InDCS \cap InUncorrected = {}
        /\ InUnpaired \cap InUncorrected = {}
        /\ InDCS \cup InUnpaired \cup InUncorrected = Records
        /\ Get(content, SortedName(all_unique)) = Records

\* C18 happens: the final merge is done and each of its three inputs brought
\* a record, one of them a corrected singleton.
C18_Witness ==
    /\ FinalMergeDone
    /\ InDCS # {} /\ InUnpaired # {} /\ InUncorrected # {}
    /\ Get(content, SortedName(sing_cor)) \cup Get(content, SortedName(sscs_cor)) # {}

(* =================== properties of the consensus caller ================= *)
Called == "called" \in DOMAIN caller

\* The highest number of occurrences of one base in the column.
TopCount(column) ==
    CHOOSE k \in 1..Len(column) :
        /\ \E b \in Bases : count(b, column) = k
        /\ \A b \in Bases : count(b, column) <= k

\* top / size >= num / den, over the integers.
AtLeast(top, size, q) == top * q[2] >= q[1] * size

\* C20: a column is called with a base of the highest count when that count
\* over the family size is at least the cutoff, compared exactly, and with N
\* when it is below; A,A,G under 0.7 is N and A,A,A,A,G under 0.7 is A.
C20_CutoffBoundary ==
    Called =>
        LET col == caller.column
            q == Rational(caller.cutoff) IN
        /\ AtLeast(TopCount(col), Len(col), q) =>
              /\ caller.called \in Bases
              /\ count(caller.called, col) = TopCount(col)
        /\ ~AtLeast(TopCount(col), Len(col), q) => caller.called = "N"
        /\ (col = <<"A", "A", "G">> /\ caller.cutoff = "0.7") => caller.called = "N"
        /\ (col = <<"A", "A", "A", "A", "G">> /\ caller.cutoff = "0.7") =>
              caller.called = "A"

\* C20 happens: a column whose majority fraction equals the cutoff is called.
C20_Witness ==
    /\ Called
    /\ caller.column = <<"A", "A", "A", "A", "G">>
    /\ caller.cutoff = "0.8"
    /\ caller.called = "A"

(* ============ properties of the statistics and the time tracker ========= *)
StageDirs == {".", "sscs", "dcs", "sscs_sc", "dcs_sc"}
StatsDirs == {d \in StageDirs : stats(d) \in files}
TrackerDirs == {d \in StageDirs : time_tracker(d) \in files}

\* The next statement is a rename of the statistics file or the time tracker.
AtBookkeepingRename ==
    /\ ip <= Len(Prog(args)) /\ Cur.op = "rename"
    /\ \E d \in StageDirs : Cur.src \in {stats(d), time_tracker(d)}

\* The statistics file was renamed and the time tracker is next.
BetweenThePair ==
    /\ ip <= Len(Prog(args)) /\ Cur.op = "rename"
    /\ \E d \in StatsDirs : Cur.dst = time_tracker(d)

\* C22: before cleanup, once SSCS_maker returned 0, the statistics file and
\* the time tracker each exist at exactly one path, in the same directory
\* (but between the two renames of one move); every rename of them finds its
\* source where the previous step left it, with singleton correction on or
\* off.
C22_BookkeepingFilesTracked ==
    (Started /\ ip <= CleanupStart /\ Len(log) > 0 /\ log[1].rc = 0) =>
        /\ Cardinality(StatsDirs) = 1
        /\ Cardinality(TrackerDirs) = 1
        /\ StatsDirs = TrackerDirs \/ BetweenThePair
        /\ AtBookkeepingRename => Cur.src \in files

(* ================== properties of the order of the reads ================ *)
\* The highest count is held by two bases or more.
Tied(column) ==
    Cardinality({b \in Bases : count(b, column) = TopCount(column)}) > 1

\* A run of the caller on the family in another read order.
IsReCall == Called /\ caller'.runs = 2

\* C21 as stated: a run of the caller on the same family in another read order
\* calls the column as the run before it did, whatever the cutoff and the
\* counts.
C21_AnyOrderSameCall ==
    [][IsReCall => caller'.called = caller.called]_vars

\* C21 amended: a run of the caller on the same family in another read order
\* calls the column as the run before it did when the cutoff is above 1/2 or
\* one base alone holds the highest count; otherwise both runs call a base of
\* the highest count or both call N.
C21_OrderIndependent ==
    [][IsReCall =>
         LET q == Rational(caller.cutoff) IN
         /\ (2 * q[1] > q[2] \/ ~Tied(caller.column)) => caller'.called = caller.called
         /\ caller'.called = "N" <=> caller.called = "N"
         /\ caller'.called # "N" => count(caller'.called, caller'.column) = TopCount(caller.column)
      ]_vars

\* C21 happens: the caller was run again on a reordered family whose highest
\* count is tied, under a cutoff above 1/2.
C21_Witness ==
    /\ Called /\ caller.runs = 2
    /\ caller.column = <<"G", "A", "A", "G", "C">>
    /\ caller.cutoff = "0.7"
    /\ caller.called = "N"

====
